---- MODULE Spec2Model ----
(***************************************************************************)
(* A model of PedigreeMaker.js (version 2.0.0): the grid <-> pixel         *)
(* transform, the sibling-swap layout optimizer, the connection router,    *)
(* the render pipeline and the pointer-driven drag controller.             *)
(*                                                                         *)
(* Conventions of the model                                                *)
(*  - A grid coordinate is a real number in the program.  The model keeps  *)
(*    it in fixed point, in units of 1/GridUnit of a grid cell, so that    *)
(*    the fractional positions of the demo datasets (0.5, 1.5, ...) are    *)
(*    representable.  Pixel coordinates are integers.                      *)
(*  - A string that takes part in join('-') / split('-') is handled by its *)
(*    '-'-separated segments (Segs); an id without '-' is its own segment. *)
(*  - An absent `mate` is the empty string (falsy in JavaScript), an       *)
(*    absent `parents` / `phenotypes` array is the empty sequence.         *)
(*  - The canvas is the sequence of drawing commands issued since the      *)
(*    last clearRect.  The fields a, b, key of a command say which persons *)
(*    the command was issued for; the program only draws the coordinates.  *)
(*  - The touch handlers forward to the mouse handlers with the same       *)
(*    canvas position; each mouse action stands for both.                  *)
(*  - JSON.parse(JSON.stringify(v)) of a dataset (strings, finite numbers,  *)
(*    booleans, arrays, plain objects) is a fresh value equal to v; what   *)
(*    matters is which references the page holds: `aliased` says whether   *)
(*    it holds the working array itself.                                   *)
(*  - this.lastMousePos is written by _handleMouseMove and never read; it  *)
(*    is not kept.  The shadow of the dragged node changes no coordinate   *)
(*    and is not kept either.                                              *)
(***************************************************************************)
EXTENDS Integers, Sequences, FiniteSets, TLC

VARIABLES
    engine,             \* "none" before `new PedigreeMaker`, then "ready" or "failed" (constructor threw)
    data,               \* this.data: the working copy, a sequence of person records
    originalData,       \* this.originalData
    autoLayoutOptimize, \* this.config.autoLayoutOptimize
    listeners,          \* TRUE when _setupInteractivity registered the canvas listeners
    nodeCoords,         \* this.nodeCoords: sequence of [id, x, y] in key insertion order
    isDragging,         \* this.isDragging
    dragTarget,         \* this.dragTarget: a reference to a person object
    dragOffset,         \* this.dragOffset
    cursor,             \* this.canvas.style.cursor
    canvas,             \* drawing commands on the canvas since the last clearRect
    onNodeMoved,        \* TRUE when this.config.onNodeMoved is a function
    aliased,            \* TRUE while the page holds a reference to the array this.data
    lastOp,             \* the operation that last ran or wrote to the working copy,
                        \* with its outcome (history)
    moves               \* number of changes made to the working copy from outside
                        \* render: pointer-moves while dragging, setData calls and
                        \* writes of the page through an alias (history, bounded)

vars == <<engine, data, originalData, autoLayoutOptimize, listeners, nodeCoords,
          isDragging, dragTarget, dragOffset, cursor, canvas, onNodeMoved, aliased,
          lastOp, moves>>

----------------------------------------------------------------------------
(* Configuration defaults, constructor lines 34-52. *)
nodeWidth == 50
nodeHeight == 50
hSpacing == 100
vSpacing == 120
paddingTop == 50
paddingLeft == 50

(* Fixed-point resolution of grid coordinates: half cells. *)
GridUnit == 1 + 1

(* Bounds of the model. *)
MaxCellX == 2       \* pointer events aim at the cells -1 .. MaxCellX
MaxCellY == 1       \* and rows -1 .. MaxCellY
MaxMoves == 1       \* changes to the working copy from outside render, per behaviour

NoId == ""

(* The phenotype style registry this.config.phenotypes (facecolor only):   *)
(* the default entry of the constructor plus the options of the demo page; *)
(* "carrier" is a style with a description and no facecolor.               *)
PhenotypeIds == {"default_affected", "poi", "bc", "carrier"}

Facecolor(phenoId) ==
    CASE phenoId = "default_affected" -> "#a9a9a9"
      [] phenoId = "poi" -> "#a9a9a9"
      [] phenoId = "bc" -> "#ffc0cb"
      [] phenoId = "carrier" -> ""
      [] OTHER -> "undefined"

(* style = this.config.phenotypes[phenoId] || this.config.phenotypes['default_affected'] *)
StyleFacecolor(phenoId) ==
    IF phenoId \in PhenotypeIds THEN Facecolor(phenoId) ELSE Facecolor("default_affected")

----------------------------------------------------------------------------
(* Strings: order and '-' segments. *)

(* Rank of a string in the UTF-16 code unit order Array.prototype.sort uses. *)
StrRank(s) ==
    CASE s = "5" -> 1 [] s = "6" -> 2
      [] s = "A" -> 3 [] s = "B" -> 4 [] s = "C" -> 5 [] s = "D" -> 6
      [] s = "I" -> 7 [] s = "I-5" -> 8 [] s = "I-6" -> 9
      [] s = "II" -> 10 [] s = "II-5" -> 11
      [] s = "N" -> 12 [] s = "P" -> 13 [] s = "Q" -> 14 [] s = "R" -> 15
      [] s = "X" -> 16 [] s = "a" -> 17 [] s = "a-b" -> 18 [] s = "b-c" -> 19
      [] s = "c" -> 20
      [] OTHER -> 0

StrLess(s, t) == StrRank(s) < StrRank(t)

(* The '-'-separated segments of a string. *)
Segs(s) ==
    CASE s = "a-b" -> <<"a", "b">>
      [] s = "b-c" -> <<"b", "c">>
      [] s = "I-5" -> <<"I", "5">>
      [] s = "I-6" -> <<"I", "6">>
      [] s = "II-5" -> <<"II", "5">>
      [] OTHER -> <<s>>

(* Mutant of Sort2: the array is left as it is. *)
Sort2Unsorted(arr) == arr

(* [a, b].sort() for an array of at most two strings. *)
Sort2(arr) ==
    IF Len(arr) = 2 /\ StrLess(arr[2], arr[1]) THEN <<arr[2], arr[1]>> ELSE arr

RECURSIVE JoinDash(_)
(* arr.join('-'), as the segments of the resulting string. *)
JoinDash(arr) ==
    IF arr = <<>> THEN <<>> ELSE Segs(Head(arr)) \o JoinDash(Tail(arr))

(* key.split('-') *)
SplitDash(key) == key

----------------------------------------------------------------------------
(* Person records and the datasets handed to the constructor. *)

Person(id, sex, gx, gy, mate, parents, phenotypes, isProband) ==
    [id |-> id, sex |-> sex, pos |-> [x |-> gx, y |-> gy], mate |-> mate,
     parents |-> parents, phenotypes |-> phenotypes, isProband |-> isProband]

(* Section 8 scenario: A (0,0), B (1,0) mate A, C (0.5,1) parents [A,B]. *)
ScenarioData ==
    << Person("A", "M", 0, 0, NoId, <<>>, <<>>, FALSE),
       Person("B", "F", 2, 0, "A", <<>>, <<>>, FALSE),
       Person("C", "F", 1, 2, NoId, <<"A", "B">>, <<>>, FALSE) >>

(* A reduced index.html: mutual mates A and B, their children P and R, P's *)
(* mate Q to the right of R, and an unrelated N of unrecognized sex.       *)
FamilyData ==
    << Person("A", "M", 0, 0, "B", <<>>, <<>>, FALSE),
       Person("B", "F", 4, 0, "A", <<>>, <<"poi", "bc">>, FALSE),
       Person("P", "F", 1, 2, "Q", <<"B", "A">>, <<"poi">>, FALSE),
       Person("Q", "M", 5, 2, NoId, <<>>, <<"carrier", "bc">>, FALSE),
       Person("R", "F", 3, 2, NoId, <<"A", "B">>, <<"melanoma", "carrier", "bc">>, FALSE),
       Person("N", "U", 4, 2, NoId, <<>>, <<"poi">>, TRUE) >>

(* A mate reference to an id that is not in the dataset. *)
DanglingMateData ==
    << Person("A", "M", 0, 0, "X", <<>>, <<>>, FALSE),
       Person("B", "F", 2, 0, "A", <<>>, <<>>, FALSE),
       Person("C", "M", 2, 2, NoId, <<"B", "A">>, <<"bc">>, FALSE) >>

(* A parents reference to an id that is not in the dataset, listed before  *)
(* the children of a complete family.                                      *)
DanglingParentData ==
    << Person("A", "M", 0, 0, "B", <<>>, <<>>, FALSE),
       Person("B", "F", 2, 0, NoId, <<>>, <<>>, FALSE),
       Person("C", "F", 0, 2, NoId, <<"X", "A">>, <<>>, FALSE),
       Person("D", "M", 2, 2, NoId, <<"A", "B">>, <<>>, FALSE) >>

(* Two parents, neither of which declares the other as mate. *)
NoMateData ==
    << Person("A", "M", 0, 0, NoId, <<>>, <<>>, FALSE),
       Person("B", "F", 2, 0, NoId, <<>>, <<>>, FALSE),
       Person("C", "F", 0, 2, NoId, <<"A", "B">>, <<"carrier">>, FALSE),
       Person("D", "M", 4, 2, NoId, <<"B", "A">>, <<>>, TRUE) >>

(* A person left of the grid origin: P (-1,1) with mate Q (1,1) and         *)
(* sibling R (2,1).                                                        *)
NegativeData ==
    << Person("A", "M", 0, 0, "B", <<>>, <<>>, FALSE),
       Person("B", "F", 2, 0, NoId, <<>>, <<>>, FALSE),
       Person("P", "F", -2, 2, "Q", <<"A", "B">>, <<>>, FALSE),
       Person("Q", "M", 2, 2, NoId, <<>>, <<>>, FALSE),
       Person("R", "M", 4, 2, NoId, <<"A", "B">>, <<>>, FALSE) >>

(* Ids that contain the '-' separator: two couples. *)
DashedIdData ==
    << Person("a-b", "M", 0, 0, "c", <<>>, <<>>, FALSE),
       Person("c", "F", 2, 0, NoId, <<>>, <<>>, FALSE),
       Person("a", "M", 0, 2, "b-c", <<>>, <<>>, FALSE),
       Person("b-c", "F", 2, 2, NoId, <<>>, <<>>, FALSE) >>

(* P (0,1) with mate Q (3,1) and two siblings inside the span of their     *)
(* mate line, the right one (R) listed before the left one (D).            *)
TwoInsideData ==
    << Person("A", "M", 0, 0, "B", <<>>, <<>>, FALSE),
       Person("B", "F", 2, 0, NoId, <<>>, <<>>, FALSE),
       Person("P", "F", 0, 2, "Q", <<"A", "B">>, <<>>, FALSE),
       Person("R", "M", 4, 2, NoId, <<"A", "B">>, <<>>, FALSE),
       Person("D", "F", 2, 2, NoId, <<"B", "A">>, <<>>, FALSE),
       Person("Q", "M", 6, 2, NoId, <<>>, <<>>, FALSE) >>

(* A reduced achieved/testingRandom.html: the couple I-5 and I-6 and their  *)
(* child II-5.                                                             *)
DashedParentData ==
    << Person("I-5", "M", 0, 0, NoId, <<>>, <<>>, FALSE),
       Person("I-6", "F", 2, 0, "I-5", <<>>, <<>>, FALSE),
       Person("II-5", "M", 1, 2, NoId, <<"I-5", "I-6">>, <<>>, FALSE) >>

Datasets ==
    {ScenarioData, FamilyData, DanglingMateData, DanglingParentData, NoMateData,
     NegativeData, DashedIdData, TwoInsideData, DashedParentData}

(* The pages modelled, as the arguments of `new PedigreeMaker`: every      *)
(* dataset on a page without interaction, some of them on a page with      *)
(* interaction, and of these some with an onNodeMoved callback.            *)
InteractiveDatasets == Datasets
CallbackDatasets == {ScenarioData}
Pages ==
    {page \in [pedigreeData : Datasets, interactive : BOOLEAN, callback : BOOLEAN] :
        /\ page.interactive => page.pedigreeData \in InteractiveDatasets
        /\ page.callback => page.interactive /\ page.pedigreeData \in CallbackDatasets}

(* The datasets handed to setData: one with fewer persons than most of the *)
(* construction datasets.                                                  *)
SetDataInputs == {ScenarioData}

(* Index of the first person with this id, 0 when there is none:           *)
(* this.data.find(p => p.id === id).                                       *)
FindIndex(d, id) ==
    IF \E i \in 1..Len(d) : d[i].id = id
    THEN CHOOSE i \in 1..Len(d) : d[i].id = id /\ \A j \in 1..(i - 1) : d[j].id # id
    ELSE 0

Min2(a, b) == IF a < b THEN a ELSE b
Max2(a, b) == IF a > b THEN a ELSE b

----------------------------------------------------------------------------
(* Layout engine. *)

(* Mutant of GetPixelCoords: the padding is left out. *)
GetPixelCoordsNoPadding(gridX, gridY) ==
    [x |-> (gridX * hSpacing) \div GridUnit,
     y |-> (gridY * vSpacing) \div GridUnit]

(* _getPixelCoords: gridX * hSpacing + padding.left, gridY * vSpacing + padding.top *)
GetPixelCoords(gridX, gridY) ==
    [x |-> (gridX * hSpacing) \div GridUnit + paddingLeft,
     y |-> (gridY * vSpacing) \div GridUnit + paddingTop]

(* Math.round(n / d) for d > 0: the nearest integer, halves rounded up. *)
MathRound(n, d) == (2 * n + d) \div (2 * d)

(* The inverse transform of _handleMouseMove, lines 186-191: a pixel       *)
(* position to the clamped grid position (in fixed point).                 *)
PixelToGrid(px, py) ==
    [x |-> GridUnit * Max2(0, MathRound(px - paddingLeft, hSpacing)),
     y |-> GridUnit * Max2(0, MathRound(py - paddingTop, vSpacing))]

(* person.parents?.sort() on person i: sorts the array in place. *)
SortParentsAt(d, i) == [d EXCEPT ![i].parents = Sort2(@)]

(* Mutant of AreSiblings: the `person.parents !== undefined` test is       *)
(* left out.                                                               *)
AreSiblingsUndefinedToo(person, potentialObstacle) ==
    person.parents = potentialObstacle.parents

(* areSiblings, line 318, read after both parents arrays were sorted:      *)
(* JSON.stringify(person.parents) === JSON.stringify(obstacle.parents)     *)
(* && person.parents !== undefined.                                        *)
AreSiblings(person, potentialObstacle) ==
    /\ person.parents = potentialObstacle.parents
    /\ person.parents # <<>>

RECURSIVE OptimizeInnerNoGiveBack(_, _, _, _, _, _)
(* Mutant of OptimizeInner: the obstacle is not given the person's x. *)
OptimizeInnerNoGiveBack(d, i, q, lineStartX, lineEndX, j) ==
    IF j > Len(d) THEN d
    ELSE IF /\ d[j].id # d[i].id
            /\ d[j].id # d[q].id
            /\ d[j].pos.y = d[i].pos.y
            /\ d[j].pos.x > lineStartX
            /\ d[j].pos.x < lineEndX
         THEN LET sorted == SortParentsAt(SortParentsAt(d, i), j)
                  swapped == [sorted EXCEPT ![i].pos.x = sorted[j].pos.x]
              IN OptimizeInnerNoGiveBack(
                     IF AreSiblings(sorted[i], sorted[j]) THEN swapped ELSE sorted,
                     i, q, lineStartX, lineEndX, j + 1)
         ELSE OptimizeInnerNoGiveBack(d, i, q, lineStartX, lineEndX, j + 1)

RECURSIVE OptimizeInner(_, _, _, _, _, _)
(* The inner forEach of _optimizeLayout for person i and partner q, from   *)
(* obstacle j on; lineStartX / lineEndX were read before the loop.         *)
OptimizeInner(d, i, q, lineStartX, lineEndX, j) ==
    IF j > Len(d) THEN d
    ELSE IF /\ d[j].id # d[i].id
            /\ d[j].id # d[q].id
            /\ d[j].pos.y = d[i].pos.y
            /\ d[j].pos.x > lineStartX
            /\ d[j].pos.x < lineEndX
         THEN LET sorted == SortParentsAt(SortParentsAt(d, i), j)
                  swapped == [sorted EXCEPT ![i].pos.x = sorted[j].pos.x,
                                            ![j].pos.x = sorted[i].pos.x]
              IN OptimizeInner(IF AreSiblings(sorted[i], sorted[j]) THEN swapped ELSE sorted,
                               i, q, lineStartX, lineEndX, j + 1)
         ELSE OptimizeInner(d, i, q, lineStartX, lineEndX, j + 1)

RECURSIVE OptimizeOuter(_, _)
(* The outer forEach of _optimizeLayout, from person i on. *)
OptimizeOuter(d, i) ==
    IF i > Len(d) THEN d
    ELSE LET q == FindIndex(d, d[i].mate)
         IN IF d[i].mate # NoId /\ q # 0
            THEN OptimizeOuter(
                     OptimizeInner(d, i, q,
                                   Min2(d[i].pos.x, d[q].pos.x),
                                   Max2(d[i].pos.x, d[q].pos.x), 1),
                     i + 1)
            ELSE OptimizeOuter(d, i + 1)

(* Mutant of OptimizeLayout: the autoLayoutOptimize toggle is not read. *)
OptimizeLayoutAlways(d, auto) == OptimizeOuter(d, 1)

(* _optimizeLayout *)
OptimizeLayout(d, auto) == IF auto THEN OptimizeOuter(d, 1) ELSE d

----------------------------------------------------------------------------
(* Render pipeline. *)

(* One drawing command.  op is the primitive and its role, (x1,y1)-(x2,y2) *)
(* its geometry; a, b, key, i, k tell for whom it was issued.              *)
Cmd(op, a, b, key, i, k, x1, y1, x2, y2) ==
    [op |-> op, a |-> a, b |-> b, key |-> key, i |-> i, k |-> k,
     x1 |-> x1, y1 |-> y1, x2 |-> x2, y2 |-> y2]

(* this.nodeCoords[id], as the index of the entry; 0 is `undefined`. *)
CoordIndex(nc, id) ==
    IF \E n \in 1..Len(nc) : nc[n].id = id
    THEN CHOOSE n \in 1..Len(nc) : nc[n].id = id
    ELSE 0

HasCoord(nc, id) == CoordIndex(nc, id) # 0

CoordOf(nc, id) == nc[CoordIndex(nc, id)]

(* this.nodeCoords[id] = {x, y}: an existing key keeps its place in the    *)
(* enumeration order, a new key goes last.                                 *)
PutCoord(nc, id, x, y) ==
    IF HasCoord(nc, id)
    THEN [nc EXCEPT ![CoordIndex(nc, id)] = [id |-> id, x |-> x, y |-> y]]
    ELSE Append(nc, [id |-> id, x |-> x, y |-> y])

RECURSIVE PhenotypeFillAnyStyle(_, _, _, _)
(* Mutant of PhenotypeFill: a style without facecolor is drawn too. *)
PhenotypeFillAnyStyle(person, x, y, i) ==
    LET k == Len(person.phenotypes)
        phenoId == person.phenotypes[i]
        segment ==
            IF person.sex = "F"
            THEN << Cmd("fillWedge", person.id, phenoId, <<>>, i - 1, k,
                        x, y, 4 * (i - 1), 4 * i) >>
            ELSE << Cmd("fillBar", person.id, phenoId, <<>>, i - 1, k,
                        x - nodeWidth \div 2, y - nodeHeight \div 2,
                        nodeWidth, nodeHeight) >>
    IN IF i > k \/ person.sex \notin {"F", "M"} THEN <<>>
       ELSE segment \o PhenotypeFillAnyStyle(person, x, y, i + 1)

RECURSIVE PhenotypeFill(_, _, _, _)
(* _drawPhenotypeFill, from phenotype index i (1-based here) on: a wedge   *)
(* for 'F', a bar for 'M', nothing for any other sex; a style without      *)
(* facecolor draws nothing.  Angles are in units of 1/(4k) of a turn.      *)
PhenotypeFill(person, x, y, i) ==
    LET k == Len(person.phenotypes)
        phenoId == person.phenotypes[i]
        segment ==
            IF StyleFacecolor(phenoId) = "" THEN <<>>
            ELSE IF person.sex = "F"
                 THEN << Cmd("fillWedge", person.id, phenoId, <<>>, i - 1, k,
                             x, y, 4 * (i - 1), 4 * i) >>
                 ELSE << Cmd("fillBar", person.id, phenoId, <<>>, i - 1, k,
                             x - nodeWidth \div 2, y - nodeHeight \div 2,
                             nodeWidth, nodeHeight) >>
    IN IF i > k \/ person.sex \notin {"F", "M"} THEN <<>>
       ELSE segment \o PhenotypeFill(person, x, y, i + 1)

(* Mutant of NodeCommands: every sex other than 'F' gets the rectangle. *)
NodeCommandsElseRect(person, x, y) ==
    (IF Len(person.phenotypes) > 0 THEN PhenotypeFill(person, x, y, 1) ELSE <<>>)
    \o (IF person.sex = "F"
        THEN << Cmd("circle", person.id, NoId, <<>>, 0, 0, x, y, nodeWidth \div 2, 0) >>
        ELSE << Cmd("rect", person.id, NoId, <<>>, 0, 0,
                    x - nodeWidth \div 2, y - nodeHeight \div 2, nodeWidth, nodeHeight) >>)
    \o (IF person.isProband
        THEN << Cmd("proband", person.id, NoId, <<>>, 0, 0,
                    x - nodeWidth \div 2 - 5 - 15, y, x - nodeWidth \div 2 - 5, y) >>
        ELSE <<>>)
    \o << Cmd("label", person.id, NoId, <<>>, 0, 0, x, y + nodeHeight \div 2 + 5, 0, 0) >>

(* The commands of _drawNode for one person at pixel position (x, y). *)
NodeCommands(person, x, y) ==
    (IF Len(person.phenotypes) > 0 THEN PhenotypeFill(person, x, y, 1) ELSE <<>>)
    \o (IF person.sex = "M"
        THEN << Cmd("rect", person.id, NoId, <<>>, 0, 0,
                    x - nodeWidth \div 2, y - nodeHeight \div 2, nodeWidth, nodeHeight) >>
        ELSE IF person.sex = "F"
             THEN << Cmd("circle", person.id, NoId, <<>>, 0, 0, x, y, nodeWidth \div 2, 0) >>
             ELSE <<>>)
    \o (IF person.isProband
        THEN << Cmd("proband", person.id, NoId, <<>>, 0, 0,
                    x - nodeWidth \div 2 - 5 - 15, y, x - nodeWidth \div 2 - 5, y) >>
        ELSE <<>>)
    \o << Cmd("label", person.id, NoId, <<>>, 0, 0, x, y + nodeHeight \div 2 + 5, 0, 0) >>

RECURSIVE DrawNodes(_, _, _, _)
(* this.data.forEach(person => this._drawNode(person)), from person i on:  *)
(* records the pixel position in nodeCoords and draws the node.            *)
DrawNodes(d, nc, cv, i) ==
    IF i > Len(d) THEN [nodeCoords |-> nc, canvas |-> cv]
    ELSE LET c == GetPixelCoords(d[i].pos.x, d[i].pos.y)
         IN DrawNodes(d, PutCoord(nc, d[i].id, c.x, c.y),
                      cv \o NodeCommands(d[i], c.x, c.y), i + 1)

----------------------------------------------------------------------------
(* Connection router: _drawConnections. *)

(* Index of the group with this key in childrenByParents, 0 when absent. *)
GroupIndex(groups, key) ==
    IF \E g \in 1..Len(groups) : groups[g].key = key
    THEN CHOOSE g \in 1..Len(groups) : groups[g].key = key
    ELSE 0

RECURSIVE BuildGroups(_, _, _)
(* First loop, lines 426-434, from person i on.  person.parents.sort()     *)
(* sorts the array of the working copy in place; the groups keep the order *)
(* in which their keys were first inserted.                                *)
BuildGroups(d, groups, i) ==
    IF i > Len(d) THEN [data |-> d, groups |-> groups]
    ELSE IF Len(d[i].parents) = 2
         THEN LET d1 == SortParentsAt(d, i)
                  parentKey == JoinDash(d1[i].parents)
                  g == GroupIndex(groups, parentKey)
                  groups1 == IF g = 0
                             THEN Append(groups, [key |-> parentKey, children |-> <<d[i].id>>])
                             ELSE [groups EXCEPT ![g].children = Append(@, d[i].id)]
              IN BuildGroups(d1, groups1, i + 1)
         ELSE BuildGroups(d, groups, i + 1)

RECURSIVE DrawPartnerships(_, _, _, _, _, _)
(* Second loop, lines 436-462, from person i on: the partnership line of   *)
(* each not yet drawn pair with two resolved positions and, when the pair  *)
(* is the key of a sibling group, the drop line from its midpoint.         *)
DrawPartnerships(d, nc, groups, drawnPartnerships, cv, i) ==
    IF i > Len(d) THEN cv
    ELSE LET person == d[i]
             partnershipKey == JoinDash(Sort2(<<person.id, person.mate>>))
         IN IF /\ person.mate # NoId
               /\ partnershipKey \notin drawnPartnerships
               /\ HasCoord(nc, person.id)
               /\ HasCoord(nc, person.mate)
            THEN LET p1 == CoordOf(nc, person.id)
                     p2 == CoordOf(nc, person.mate)
                     leftNode == IF p1.x < p2.x THEN p1 ELSE p2
                     rightNode == IF p1.x < p2.x THEN p2 ELSE p1
                     midX == (p1.x + p2.x) \div 2
                     line == Cmd("partnership", person.id, person.mate, partnershipKey, 0, 0,
                                 leftNode.x + nodeWidth \div 2, leftNode.y,
                                 rightNode.x - nodeWidth \div 2, rightNode.y)
                     drop == IF GroupIndex(groups, partnershipKey) # 0
                             THEN << Cmd("parentDrop", person.id, person.mate, partnershipKey, 0, 0,
                                         midX, p1.y, midX, p1.y + vSpacing \div 2) >>
                             ELSE <<>>
                 IN DrawPartnerships(d, nc, groups, drawnPartnerships \cup {partnershipKey},
                                     (cv \o <<line>>) \o drop, i + 1)
            ELSE DrawPartnerships(d, nc, groups, drawnPartnerships, cv, i + 1)

RECURSIVE ChildDrops(_, _, _, _, _)
(* childCoords.forEach, lines 487-492, from child n on. *)
ChildDrops(nc, key, children, sibshipY, n) ==
    IF n > Len(children) THEN <<>>
    ELSE LET child == CoordOf(nc, children[n])
         IN << Cmd("childDrop", children[n], NoId, key, 0, 0,
                   child.x, sibshipY, child.x, child.y - nodeHeight \div 2) >>
            \o ChildDrops(nc, key, children, sibshipY, n + 1)

(* Mutant of FirstChildX: the largest child x is taken. *)
FirstChildXLargest(nc, children) ==
    CHOOSE v \in {CoordOf(nc, children[n]).x : n \in 1..Len(children)} :
        \A n \in 1..Len(children) : v >= CoordOf(nc, children[n]).x

(* Math.min(...childCoords.map(c => c.x)) and Math.max(...) *)
FirstChildX(nc, children) ==
    CHOOSE v \in {CoordOf(nc, children[n]).x : n \in 1..Len(children)} :
        \A n \in 1..Len(children) : v <= CoordOf(nc, children[n]).x
LastChildX(nc, children) ==
    CHOOSE v \in {CoordOf(nc, children[n]).x : n \in 1..Len(children)} :
        \A n \in 1..Len(children) : v >= CoordOf(nc, children[n]).x

RECURSIVE DrawSibships(_, _, _, _)
(* Third loop, lines 464-493, from group g on.  parentIds are the first    *)
(* two pieces of parentKey.split('-'); reading .y or .x of an undefined    *)
(* nodeCoords entry throws a TypeError, which ends the loop.               *)
DrawSibships(nc, groups, cv, g) ==
    IF g > Len(groups) THEN [canvas |-> cv, threw |-> FALSE]
    ELSE LET parentKey == groups[g].key
             children == groups[g].children
             parentIds == SplitDash(parentKey)
         IN IF ~HasCoord(nc, parentIds[1]) \/ ~HasCoord(nc, parentIds[2])
            THEN [canvas |-> cv, threw |-> TRUE]
            ELSE LET p1 == CoordOf(nc, parentIds[1])
                     p2 == CoordOf(nc, parentIds[2])
                     sibshipY == p1.y + vSpacing \div 2
                     parentMidX == (p1.x + p2.x) \div 2
                     sibshipLineStart == Min2(parentMidX, FirstChildX(nc, children))
                     sibshipLineEnd == Max2(parentMidX, LastChildX(nc, children))
                     bus == Cmd("bus", parentIds[1], parentIds[2], parentKey, 0, 0,
                                sibshipLineStart, sibshipY, sibshipLineEnd, sibshipY)
                 IN DrawSibships(nc, groups,
                                 (cv \o <<bus>>) \o ChildDrops(nc, parentKey, children, sibshipY, 1),
                                 g + 1)

(* What _drawConnections leaves: the working copy after the in-place       *)
(* sorts, the canvas and whether the call threw.                           *)
ConnectionsResult(built, sib) ==
    [data |-> built.data, canvas |-> sib.canvas, threw |-> sib.threw]

(* The second and third loop of _drawConnections, given the result of the  *)
(* first.                                                                  *)
ConnectionsOf(built, nc, cv) ==
    ConnectionsResult(built,
        DrawSibships(nc, built.groups,
                     DrawPartnerships(built.data, nc, built.groups, {}, cv, 1), 1))

(* _drawConnections *)
DrawConnections(d, nc, cv) == ConnectionsOf(BuildGroups(d, <<>>, 1), nc, cv)

(* What render() leaves: the working copy, the Coordinate Index, the       *)
(* canvas and whether the call threw.                                      *)
RenderResult(nodes, conn) ==
    [data |-> conn.data, nodeCoords |-> nodes.nodeCoords,
     canvas |-> conn.canvas, threw |-> conn.threw]

(* render() from line 500 on: the connections, after the nodes were drawn. *)
RenderNodes(optimized, nodes) ==
    RenderResult(nodes, DrawConnections(optimized, nodes.nodeCoords, nodes.canvas))

(* render() from line 498 on: clearRect and the nodes, after the optimizer. *)
RenderOptimized(optimized, nc) ==
    RenderNodes(optimized, DrawNodes(optimized, nc, <<>>, 1))

(* render(): optimize, clearRect, draw every node, draw the connections. *)
Render(d, nc, auto) == RenderOptimized(OptimizeLayout(d, auto), nc)

----------------------------------------------------------------------------
(* Interaction controller. *)

(* A person object no variable refers to. *)
NullPerson == Person(NoId, "", 0, 0, NoId, <<>>, <<>>, FALSE)

(* this.dragTarget is null, or a reference to a person object.  The object *)
(* is element idx of this.data (live), or, once resetPositions / setData   *)
(* replaced this.data, an object of the discarded array (obj).             *)
NoTarget == [active |-> FALSE, live |-> FALSE, idx |-> 0, obj |-> NullPerson]
LiveTarget(i) == [active |-> TRUE, live |-> TRUE, idx |-> i, obj |-> NullPerson]
DetachedTarget(person) == [active |-> TRUE, live |-> FALSE, idx |-> 0, obj |-> person]

(* The object this.dragTarget refers to. *)
TargetPerson(d, dt) == IF dt.live THEN d[dt.idx] ELSE dt.obj

(* The hit test of _findNodeAtPosition for one nodeCoords entry. *)
IsInside(person, coord, x, y) ==
    LET dx == x - coord.x
        dy == y - coord.y
    IN IF person.sex = "F"
       THEN 4 * (dx * dx + dy * dy) <= nodeWidth * nodeWidth
       ELSE /\ 2 * (IF dx < 0 THEN -dx ELSE dx) <= nodeWidth
            /\ 2 * (IF dy < 0 THEN -dy ELSE dy) <= nodeHeight

RECURSIVE FindNodeAtPositionLast(_, _, _, _, _)
(* Mutant of FindNodeAtPosition: the loop goes on after a hit, the last    *)
(* node hit is returned.                                                   *)
FindNodeAtPositionLast(nc, d, x, y, n) ==
    IF n > Len(nc) THEN [kind |-> "miss", idx |-> 0]
    ELSE LET i == FindIndex(d, nc[n].id)
         IN IF i = 0 THEN [kind |-> "throw", idx |-> 0]
            ELSE IF /\ IsInside(d[i], nc[n], x, y)
                    /\ FindNodeAtPositionLast(nc, d, x, y, n + 1).kind = "miss"
                 THEN [kind |-> "hit", idx |-> i]
                 ELSE FindNodeAtPositionLast(nc, d, x, y, n + 1)

RECURSIVE FindNodeAtPosition(_, _, _, _, _)
(* _findNodeAtPosition, from nodeCoords entry n on: the index in this.data *)
(* of the first node hit ("hit"), "miss", or "throw" when an entry's id is *)
(* not in this.data (person is undefined and person.sex throws).           *)
FindNodeAtPosition(nc, d, x, y, n) ==
    IF n > Len(nc) THEN [kind |-> "miss", idx |-> 0]
    ELSE LET i == FindIndex(d, nc[n].id)
         IN IF i = 0 THEN [kind |-> "throw", idx |-> 0]
            ELSE IF IsInside(d[i], nc[n], x, y) THEN [kind |-> "hit", idx |-> i]
            ELSE FindNodeAtPosition(nc, d, x, y, n + 1)

(* The outcome of an operation: whether it threw, how many render() calls  *)
(* it made and how many times it invoked this.config.onNodeMoved.          *)
Op(name, threw, renders) ==
    [name |-> name, threw |-> threw, renders |-> renders, notified |-> 0]

(* Pointer positions relative to the canvas: the centres of the cells      *)
(* -1 .. MaxCellX of the rows -1 .. MaxCellY, the point 20 pixels to the   *)
(* right of the centre of the last cell of each row, and the point half a  *)
(* cell to the right of the centre of the first cell (where the demo       *)
(* datasets put a node at x = 0.5).                                        *)
PointerXs ==
    {GetPixelCoords(GridUnit * c, 0).x : c \in -1..MaxCellX}
        \cup {GetPixelCoords(GridUnit * MaxCellX, 0).x + 20}
        \cup {GetPixelCoords(1, 0).x}
PointerYs == {GetPixelCoords(0, GridUnit * r).y : r \in -1..MaxCellY}

Init ==
    /\ engine = "none"
    /\ data = <<>>
    /\ originalData = <<>>
    /\ autoLayoutOptimize = TRUE
    /\ listeners = FALSE
    /\ nodeCoords = <<>>
    /\ isDragging = FALSE
    /\ dragTarget = NoTarget
    /\ dragOffset = [x |-> 0, y |-> 0]
    /\ cursor = "unset"
    /\ canvas = <<>>
    /\ onNodeMoved = FALSE
    /\ aliased = FALSE
    /\ lastOp = Op("none", FALSE, 0)
    /\ moves = 0

(* Mutant of Construct: the canvas is looked up after the data was copied *)
(* and the listeners were registered.                                      *)
ConstructLateCheck(canvasFound, pedigreeData, interactive, callback) ==
    /\ engine = "none"
    /\ engine' = IF canvasFound THEN "ready" ELSE "failed"
    /\ data' = pedigreeData
    /\ originalData' = pedigreeData
    /\ listeners' = interactive
    /\ onNodeMoved' = callback
    /\ cursor' = IF interactive THEN "default" ELSE cursor
    /\ lastOp' = Op("constructor", ~canvasFound, 0)
    /\ UNCHANGED <<autoLayoutOptimize, nodeCoords, isDragging, dragTarget, dragOffset,
                   canvas, aliased, moves>>

(* new PedigreeMaker(canvasId, pedigreeData, options); of the options,     *)
(* `interactive` and whether `onNodeMoved` is a function are inputs.  The  *)
(* page keeps its array pedigreeData; this.data is a copy of it.           *)
Construct(canvasFound, pedigreeData, interactive, callback) ==
    /\ engine = "none"
    /\ IF ~canvasFound
       THEN /\ engine' = "failed"
            /\ lastOp' = Op("constructor", TRUE, 0)
            /\ UNCHANGED <<data, originalData, listeners, cursor, onNodeMoved>>
       ELSE /\ engine' = "ready"
            /\ data' = pedigreeData
            /\ originalData' = pedigreeData
            /\ listeners' = interactive
            /\ onNodeMoved' = callback
            /\ cursor' = IF interactive THEN "default" ELSE cursor
            /\ lastOp' = Op("constructor", FALSE, 0)
    /\ UNCHANGED <<autoLayoutOptimize, nodeCoords, isDragging, dragTarget, dragOffset,
                   canvas, aliased, moves>>

(* The state after a render() with result r, called by operation `name`. *)
Rendering(r, name) ==
    /\ data' = r.data
    /\ nodeCoords' = r.nodeCoords
    /\ canvas' = r.canvas
    /\ lastOp' = Op(name, r.threw, 1)

(* The effect of this.render() on data, nodeCoords and canvas; the        *)
(* operation `name` that called it is recorded with the outcome.           *)
DoRender(d, auto, name) == Rendering(Render(d, nodeCoords, auto), name)

(* render() called by the page. *)
RenderCall ==
    /\ engine = "ready"
    /\ DoRender(data, autoLayoutOptimize, "render")
    /\ UNCHANGED <<engine, originalData, autoLayoutOptimize, listeners, isDragging,
                   dragTarget, dragOffset, cursor, onNodeMoved, aliased, moves>>

(* _handleMouseDown, also reached from _handleTouchStart. *)
HandleMouseDown(mx, my) ==
    /\ engine = "ready" /\ listeners
    /\ LET clickedNode == FindNodeAtPosition(nodeCoords, data, mx, my, 1)
       IN CASE clickedNode.kind = "hit" ->
                 LET nodeCoord == CoordOf(nodeCoords, data[clickedNode.idx].id)
                 IN /\ isDragging' = TRUE
                    /\ dragTarget' = LiveTarget(clickedNode.idx)
                    /\ dragOffset' = [x |-> mx - nodeCoord.x, y |-> my - nodeCoord.y]
                    /\ cursor' = "grabbing"
                    /\ lastOp' = Op("mousedown", FALSE, 0)
            [] clickedNode.kind = "miss" ->
                 /\ lastOp' = Op("mousedown", FALSE, 0)
                 /\ UNCHANGED <<isDragging, dragTarget, dragOffset, cursor>>
            [] OTHER ->
                 /\ lastOp' = Op("mousedown", TRUE, 0)
                 /\ UNCHANGED <<isDragging, dragTarget, dragOffset, cursor>>
    /\ UNCHANGED <<engine, data, originalData, autoLayoutOptimize, listeners, nodeCoords,
                   canvas, onNodeMoved, aliased, moves>>

(* _handleMouseMove while dragging, lines 180-194, also reached from       *)
(* _handleTouchMove: move the drag target, then render.                    *)
HandleMouseMoveDrag(mx, my) ==
    /\ engine = "ready" /\ listeners
    /\ isDragging /\ dragTarget.active
    /\ moves < MaxMoves
    /\ moves' = moves + 1
    /\ LET grid == PixelToGrid(mx - dragOffset.x, my - dragOffset.y)
           moved == IF dragTarget.live
                    THEN [data EXCEPT ![dragTarget.idx].pos = grid]
                    ELSE data
       IN /\ dragTarget' = IF dragTarget.live THEN dragTarget
                           ELSE [dragTarget EXCEPT !.obj.pos = grid]
          /\ DoRender(moved, autoLayoutOptimize, "mousemove drag")
    /\ UNCHANGED <<engine, originalData, autoLayoutOptimize, listeners, isDragging,
                   dragOffset, cursor, onNodeMoved, aliased>>

(* Mutant of HandleMouseMoveHover: the branch is taken while dragging too. *)
HandleMouseMoveHoverWhileDragging(mx, my) ==
    /\ engine = "ready" /\ listeners
    /\ LET hoveredNode == FindNodeAtPosition(nodeCoords, data, mx, my, 1)
       IN CASE hoveredNode.kind = "hit" ->
                 cursor' = "grab" /\ lastOp' = Op("mousemove hover", FALSE, 0)
            [] hoveredNode.kind = "miss" ->
                 cursor' = "default" /\ lastOp' = Op("mousemove hover", FALSE, 0)
            [] OTHER ->
                 cursor' = cursor /\ lastOp' = Op("mousemove hover", TRUE, 0)
    /\ UNCHANGED <<engine, data, originalData, autoLayoutOptimize, listeners, nodeCoords,
                   isDragging, dragTarget, dragOffset, canvas, onNodeMoved, aliased, moves>>

(* _handleMouseMove while not dragging, lines 195-199: the cursor only. *)
HandleMouseMoveHover(mx, my) ==
    /\ engine = "ready" /\ listeners
    /\ ~(isDragging /\ dragTarget.active)
    /\ LET hoveredNode == FindNodeAtPosition(nodeCoords, data, mx, my, 1)
       IN CASE hoveredNode.kind = "hit" ->
                 cursor' = "grab" /\ lastOp' = Op("mousemove hover", FALSE, 0)
            [] hoveredNode.kind = "miss" ->
                 cursor' = "default" /\ lastOp' = Op("mousemove hover", FALSE, 0)
            [] OTHER ->
                 cursor' = cursor /\ lastOp' = Op("mousemove hover", TRUE, 0)
    /\ UNCHANGED <<engine, data, originalData, autoLayoutOptimize, listeners, nodeCoords,
                   isDragging, dragTarget, dragOffset, canvas, onNodeMoved, aliased, moves>>

(* Mutant of HandleMouseUp: the `if (this.isDragging)` test is left out. *)
HandleMouseUpUnguarded ==
    /\ engine = "ready" /\ listeners
    /\ isDragging' = FALSE
    /\ dragTarget' = NoTarget
    /\ cursor' = "default"
    /\ aliased' = (aliased \/ onNodeMoved)
    /\ lastOp' = [Op("mouseup", FALSE, 0) EXCEPT
                      !.notified = IF onNodeMoved THEN 1 ELSE 0]
    /\ UNCHANGED <<engine, data, originalData, autoLayoutOptimize, listeners, nodeCoords,
                   dragOffset, canvas, onNodeMoved, moves>>

(* _handleMouseUp: mouseup, mouseleave and, through _handleTouchEnd,       *)
(* touchend.  this.config.onNodeMoved(this.data) hands the working array   *)
(* itself to the page.                                                     *)
HandleMouseUp ==
    /\ engine = "ready" /\ listeners
    /\ IF isDragging
       THEN /\ isDragging' = FALSE
            /\ dragTarget' = NoTarget
            /\ cursor' = "default"
            /\ aliased' = (aliased \/ onNodeMoved)
            /\ lastOp' = [Op("mouseup", FALSE, 0) EXCEPT
                              !.notified = IF onNodeMoved THEN 1 ELSE 0]
       ELSE /\ lastOp' = Op("mouseup", FALSE, 0)
            /\ UNCHANGED <<isDragging, dragTarget, cursor, aliased>>
    /\ UNCHANGED <<engine, data, originalData, autoLayoutOptimize, listeners, nodeCoords,
                   dragOffset, canvas, onNodeMoved, moves>>

(* The object dragTarget refers to stays the same object when this.data    *)
(* is replaced by a fresh array of fresh objects.                          *)
Detach(dt, d) == IF dt.active /\ dt.live THEN DetachedTarget(d[dt.idx]) ELSE dt

(* resetPositions(): this.data becomes a fresh array; an array the page    *)
(* was handed before is no longer the working array.                       *)
ResetPositions ==
    /\ engine = "ready"
    /\ dragTarget' = Detach(dragTarget, data)
    /\ aliased' = FALSE
    /\ DoRender(originalData, autoLayoutOptimize, "resetPositions")
    /\ UNCHANGED <<engine, originalData, autoLayoutOptimize, listeners, isDragging,
                   dragOffset, cursor, onNodeMoved, moves>>

(* setData(newData): this.data becomes a copy of newData, then render(). *)
SetData(newData) ==
    /\ engine = "ready"
    /\ moves < MaxMoves
    /\ moves' = moves + 1
    /\ dragTarget' = Detach(dragTarget, data)
    /\ aliased' = FALSE
    /\ DoRender(newData, autoLayoutOptimize, "setData")
    /\ UNCHANGED <<engine, originalData, autoLayoutOptimize, listeners, isDragging,
                   dragOffset, cursor, onNodeMoved>>

(* The array returned by getData(): a copy of this.data. *)
GetData == data

(* The page writes to an array it holds: arr[0].pos.x += 1.  Its own       *)
(* arrays (those it gave to the constructor and to setData, those getData  *)
(* returned) are copies; writing to the argument of onNodeMoved writes to  *)
(* the working array as long as this.data is that array.                   *)
PageWrites(throughCallbackArgument) ==
    /\ engine = "ready"
    /\ IF throughCallbackArgument
       THEN /\ aliased
            /\ moves < MaxMoves
            /\ moves' = moves + 1
            /\ data' = [data EXCEPT ![1].pos.x = @ + GridUnit]
            /\ lastOp' = Op("page writes", FALSE, 0)
       ELSE UNCHANGED <<data, moves, lastOp>>
    /\ UNCHANGED <<engine, originalData, autoLayoutOptimize, listeners, nodeCoords,
                   isDragging, dragTarget, dragOffset, cursor, canvas, onNodeMoved,
                   aliased>>

(* toggleAutoLayoutOptimize() *)
ToggleAutoLayoutOptimize ==
    /\ engine = "ready"
    /\ autoLayoutOptimize' = ~autoLayoutOptimize
    /\ DoRender(data, ~autoLayoutOptimize, "toggleAutoLayoutOptimize")
    /\ UNCHANGED <<engine, originalData, listeners, isDragging, dragTarget, dragOffset,
                   cursor, onNodeMoved, aliased, moves>>

Next ==
    \/ \E canvasFound \in BOOLEAN, page \in Pages :
           Construct(canvasFound, page.pedigreeData, page.interactive, page.callback)
    \/ RenderCall
    \/ \E mx \in PointerXs, my \in PointerYs : HandleMouseDown(mx, my)
    \/ \E mx \in PointerXs, my \in PointerYs : HandleMouseMoveDrag(mx, my)
    \/ \E mx \in PointerXs, my \in PointerYs : HandleMouseMoveHover(mx, my)
    \/ HandleMouseUp
    \/ ResetPositions
    \/ \E newData \in SetDataInputs : SetData(newData)
    \/ \E throughCallbackArgument \in BOOLEAN : PageWrites(throughCallbackArgument)
    \/ ToggleAutoLayoutOptimize

Spec == Init /\ [][Next]_vars

----------------------------------------------------------------------------
(* Properties. *)

(* The last operation rendered: canvas and nodeCoords are those of a       *)
(* render of the current working copy.                                     *)
Rendered == engine = "ready" /\ lastOp.renders = 1

(* Indices of the canvas commands with this op. *)
CmdsOf(op) == {n \in 1..Len(canvas) : canvas[n].op = op}

(* Math.round of a fixed-point grid coordinate, in fixed point. *)
RoundGrid(g) == GridUnit * MathRound(g, GridUnit)

IsWholeCell(g) == g % GridUnit = 0

(* C1 as stated: for every person, gridToPixel followed by the drag        *)
(* handler's inverse gives back (max(pos.x,0), max(pos.y,0)).              *)
C1_RoundTripExact ==
    \A i \in 1..Len(data) :
        LET pos == data[i].pos
            px == GetPixelCoords(pos.x, pos.y)
        IN PixelToGrid(px.x, px.y) = [x |-> Max2(pos.x, 0), y |-> Max2(pos.y, 0)]

(* C1 amended: the round trip gives (max(round(pos.x),0),                 *)
(* max(round(pos.y),0)), halves rounded up; on an axis whose coordinate is *)
(* a whole number or negative this is max(coordinate, 0).                  *)
C1_RoundTripRounded ==
    \A i \in 1..Len(data) :
        LET pos == data[i].pos
            px == GetPixelCoords(pos.x, pos.y)
            back == PixelToGrid(px.x, px.y)
        IN /\ back = [x |-> Max2(RoundGrid(pos.x), 0), y |-> Max2(RoundGrid(pos.y), 0)]
           /\ (IsWholeCell(pos.x) \/ pos.x < 0) => back.x = Max2(pos.x, 0)
           /\ (IsWholeCell(pos.y) \/ pos.y < 0) => back.y = Max2(pos.y, 0)

(* A working copy with a fractional, a negative and a whole coordinate,    *)
(* the fractional one coming back changed.                                 *)
C1_Witness ==
    /\ engine = "ready"
    /\ \E i \in 1..Len(data) :
           /\ ~IsWholeCell(data[i].pos.x)
           /\ LET px == GetPixelCoords(data[i].pos.x, data[i].pos.y)
              IN PixelToGrid(px.x, px.y).x # data[i].pos.x
    /\ \E i \in 1..Len(data) : IsWholeCell(data[i].pos.x) /\ data[i].pos.x > 0

(* The two persons are distinct and at least one names the other as mate. *)
Mates(p, q) == p.id # q.id /\ (p.mate = q.id \/ q.mate = p.id)

(* Partnership lines drawn for the pair of ids {u, v}. *)
PartnershipLines(u, v) ==
    {n \in CmdsOf("partnership") : {canvas[n].a, canvas[n].b} = {u, v}}

(* C2: in one render, exactly one partnership line is drawn between any    *)
(* two persons with resolved positions of which one names the other as     *)
(* mate.                                                                   *)
C2_OnePartnershipLine ==
    Rendered =>
        \A i, j \in 1..Len(data) :
            ( /\ Mates(data[i], data[j])
              /\ HasCoord(nodeCoords, data[i].id)
              /\ HasCoord(nodeCoords, data[j].id) )
            => Cardinality(PartnershipLines(data[i].id, data[j].id)) = 1

(* The children of the sibling group with this key, as routing buckets them. *)
ChildrenOf(key) ==
    {i \in 1..Len(data) :
        Len(data[i].parents) = 2 /\ JoinDash(Sort2(data[i].parents)) = key}

(* C3: every bus line drawn starts at or left of the smallest child x and  *)
(* ends at or right of the largest child x of its sibling group.           *)
C3_BusCoversChildren ==
    Rendered =>
        \A n \in CmdsOf("bus") :
            \A i \in ChildrenOf(canvas[n].key) :
                LET childX == GetPixelCoords(data[i].pos.x, data[i].pos.y).x
                IN canvas[n].x1 <= childX /\ childX <= canvas[n].x2

(* A bus line over two children at different x, one at each end. *)
C3_Witness ==
    /\ Rendered
    /\ \E n \in CmdsOf("bus") :
           \E i, j \in ChildrenOf(canvas[n].key) :
               /\ GetPixelCoords(data[i].pos.x, 0).x = canvas[n].x1
               /\ GetPixelCoords(data[j].pos.x, 0).x = canvas[n].x2
               /\ canvas[n].x1 < canvas[n].x2

(* C4: after a pointer-move handled while dragging (optimize and redraw    *)
(* included), the dragged person's grid x and y are both >= 0.             *)
C4_DraggedNonNegative ==
    (engine = "ready" /\ lastOp.name = "mousemove drag" /\ dragTarget.active) =>
        /\ TargetPerson(data, dragTarget).pos.x >= 0
        /\ TargetPerson(data, dragTarget).pos.y >= 0

(* Fill segments drawn for the person with this id. *)
FillsOf(id) ==
    {n \in CmdsOf("fillWedge") \cup CmdsOf("fillBar") : canvas[n].a = id}

(* The phenotype indices (0-based) of a person whose resolved style has a  *)
(* fill colour.                                                            *)
FilledIndices(person) ==
    {j - 1 : j \in {m \in 1..Len(person.phenotypes) :
                        StyleFacecolor(person.phenotypes[m]) # ""}}

(* C5 as stated: whatever the sex, a person whose k phenotypes all resolve *)
(* to a style with a fill colour gets exactly k fill segments, and a       *)
(* phenotype without fill colour gets no segment at its index.             *)
C5_FillSegmentsAnySex ==
    Rendered =>
        \A i \in 1..Len(data) :
            LET k == Len(data[i].phenotypes)
            IN /\ Cardinality(FilledIndices(data[i])) = k
                    => Cardinality(FillsOf(data[i].id)) = k
               /\ \A n \in FillsOf(data[i].id) : canvas[n].i \in FilledIndices(data[i])

(* C5 amended: the statement holds for a person whose sex is 'M' or 'F'    *)
(* (one segment per phenotype with a fill colour, at its index, none for   *)
(* the others); a person with any other sex value gets no fill segment.    *)
C5_FillSegmentsBySex ==
    Rendered =>
        \A i \in 1..Len(data) :
            IF data[i].sex \in {"M", "F"}
            THEN /\ {canvas[n].i : n \in FillsOf(data[i].id)} = FilledIndices(data[i])
                 /\ Cardinality(FillsOf(data[i].id)) = Cardinality(FilledIndices(data[i]))
            ELSE FillsOf(data[i].id) = {}

(* A render with a person whose phenotypes all have a fill colour, one     *)
(* with a phenotype without fill colour and one of unrecognized sex.       *)
C5_Witness ==
    /\ Rendered
    /\ \E i \in 1..Len(data) :
           /\ Len(data[i].phenotypes) >= 2
           /\ Cardinality(FillsOf(data[i].id)) = Len(data[i].phenotypes)
    /\ \E i \in 1..Len(data) :
           /\ data[i].sex \in {"M", "F"}
           /\ FillsOf(data[i].id) # {}
           /\ Cardinality(FillsOf(data[i].id)) < Len(data[i].phenotypes)
    /\ \E i \in 1..Len(data) :
           /\ data[i].sex \notin {"M", "F"}
           /\ Len(data[i].phenotypes) > 0
           /\ FilledIndices(data[i]) # {}

(* The connection lines on the canvas, in drawing order. *)
IsLine(c) == c.op \in {"partnership", "parentDrop", "bus", "childDrop"}
Lines == SelectSeq(canvas, IsLine)

(* C6: a render of the scenario dataset draws one partnership line between *)
(* A and B, one drop line from their midpoint down to the sibship row, one *)
(* bus line on the sibship row covering C's x, one drop line from the      *)
(* sibship row to the top edge of C, and no other connection line.         *)
C6_ScenarioLines ==
    (Rendered /\ data = ScenarioData) =>
        LET pa == GetPixelCoords(0, 0)
            pb == GetPixelCoords(GridUnit, 0)
            pc == GetPixelCoords(1, GridUnit)
            midX == (pa.x + pb.x) \div 2
            sibshipY == pa.y + vSpacing \div 2
        IN /\ Len(Lines) = 4
           /\ \A op \in {"partnership", "parentDrop", "bus", "childDrop"} :
                  Cardinality(CmdsOf(op)) = 1
           /\ \E n \in CmdsOf("partnership") :
                  /\ {canvas[n].a, canvas[n].b} = {"A", "B"}
                  /\ <<canvas[n].x1, canvas[n].y1>> = <<pa.x + nodeWidth \div 2, pa.y>>
                  /\ <<canvas[n].x2, canvas[n].y2>> = <<pb.x - nodeWidth \div 2, pb.y>>
           /\ \E n \in CmdsOf("parentDrop") :
                  /\ <<canvas[n].x1, canvas[n].y1>> = <<midX, pa.y>>
                  /\ <<canvas[n].x2, canvas[n].y2>> = <<midX, sibshipY>>
           /\ \E n \in CmdsOf("bus") :
                  /\ canvas[n].y1 = sibshipY /\ canvas[n].y2 = sibshipY
                  /\ canvas[n].x1 <= pc.x /\ pc.x <= canvas[n].x2
           /\ \E n \in CmdsOf("childDrop") :
                  /\ canvas[n].a = "C"
                  /\ <<canvas[n].x1, canvas[n].y1>> = <<pc.x, sibshipY>>
                  /\ <<canvas[n].x2, canvas[n].y2>> = <<pc.x, pc.y - nodeHeight \div 2>>

(* The scenario dataset has been rendered, the bus line being zero-width. *)
C6_Witness ==
    /\ Rendered /\ data = ScenarioData /\ ~lastOp.threw
    /\ \E n \in CmdsOf("bus") : canvas[n].x1 = canvas[n].x2

(* The mate of this person is a person of the dataset. *)
HasPartner(d, i) == d[i].mate # NoId /\ FindIndex(d, d[i].mate) # 0

(* Both have a parents field and their sorted parent-id pairs are equal. *)
SameSortedParents(p, q) ==
    p.parents # <<>> /\ q.parents # <<>> /\ Sort2(p.parents) = Sort2(q.parents)

(* The persons whose x one optimizer pass over d changes. *)
MovedBy(d) == {i \in 1..Len(d) : OptimizeLayout(d, TRUE)[i].pos.x # d[i].pos.x}

(* C7: one optimizer pass over the working copy changes the x of a person  *)
(* only together with the x of another person with the same sorted parents *)
(* pair, one of the two having a mate in the dataset; the x of every       *)
(* other person stays as it is.                                            *)
C7_OnlySiblingsSwap ==
    engine = "ready" =>
        \A i \in MovedBy(data) :
            \E j \in MovedBy(data) :
                /\ j # i
                /\ SameSortedParents(data[i], data[j])
                /\ HasPartner(data, i) \/ HasPartner(data, j)

(* A pass swaps two siblings while a non-sibling on their row, strictly    *)
(* inside the span of the mate line, keeps its x.                          *)
C7_Witness ==
    /\ engine = "ready"
    /\ \E i \in MovedBy(data), q, r \in 1..Len(data) :
           /\ data[i].mate = data[q].id
           /\ r \notin MovedBy(data) /\ r # q
           /\ ~SameSortedParents(data[i], data[r])
           /\ data[r].pos.y = data[i].pos.y
           /\ data[r].pos.x > Min2(data[i].pos.x, data[q].pos.x)
           /\ data[r].pos.x < Max2(data[i].pos.x, data[q].pos.x)

(* C8: when the canvas is not found the constructor throws: no engine, no  *)
(* copy of the dataset, no listener.                                       *)
C8_FailedConstruction ==
    engine = "failed" =>
        /\ data = <<>> /\ originalData = <<>>
        /\ ~listeners
        /\ nodeCoords = <<>> /\ canvas = <<>>
        /\ lastOp = Op("constructor", TRUE, 0)

(* The constructor has thrown. *)
C8_Witness == engine = "failed" /\ lastOp.name = "constructor" /\ lastOp.threw

(* Both parents of the sibling group of person i have a resolved position. *)
ParentsResolved(i) ==
    /\ Len(data[i].parents) = 2
    /\ HasCoord(nodeCoords, data[i].parents[1])
    /\ HasCoord(nodeCoords, data[i].parents[2])

(* C9: a render completes without failing when a mate or parents reference *)
(* has no resolved position; the connection of that reference is left out  *)
(* and every family with two resolved parents still gets its bus line.     *)
C9_RenderTolerates ==
    Rendered =>
        /\ ~lastOp.threw
        /\ \A i \in 1..Len(data) :
               ParentsResolved(i) =>
                   \E n \in CmdsOf("bus") : i \in ChildrenOf(canvas[n].key)

(* C10: every sibling group whose two parents have resolved positions gets *)
(* its parent drop line, its bus line and a drop line per child, with or   *)
(* without a mate declaration between the parents.                         *)
C10_FamilyLinesWithoutMate ==
    (Rendered /\ ~lastOp.threw) =>
        \A i \in 1..Len(data) :
            ParentsResolved(i) =>
                LET key == JoinDash(Sort2(data[i].parents))
                IN /\ \E n \in CmdsOf("parentDrop") : canvas[n].key = key
                   /\ \E n \in CmdsOf("bus") : canvas[n].key = key
                   /\ \E n \in CmdsOf("childDrop") : canvas[n].a = data[i].id

(* C11: a write of the page to an array it gave to the constructor or to   *)
(* setData, got from getData or was handed by onNodeMoved never changes    *)
(* what getData() returns.                                                 *)
C11_CallersNeverAlias ==
    [][\A throughCallbackArgument \in BOOLEAN :
           PageWrites(throughCallbackArgument) => GetData' = GetData]_vars

(* C12: after a resetPositions() that ran to completion, every person of   *)
(* the working copy is at its position in the construction dataset.        *)
C12_ResetRestoresPositions ==
    (engine = "ready" /\ lastOp.name = "resetPositions" /\ ~lastOp.threw) =>
        /\ Len(data) = Len(originalData)
        /\ \A i \in 1..Len(data) :
               data[i].id = originalData[i].id /\ data[i].pos = originalData[i].pos

(* The grid positions of a dataset, person by person. *)
Positions(d) == [i \in 1..Len(d) |-> d[i].pos]

(* What one more render() call would produce in this state. *)
NextRender == Render(data, nodeCoords, autoLayoutOptimize)

NoSiblingInsideMateSpan(d) ==
    \A i, j \in 1..Len(d) :
        ( /\ HasPartner(d, i)
          /\ d[j].id # d[i].id
          /\ d[j].id # d[i].mate
          /\ d[j].pos.y = d[i].pos.y
          /\ d[j].pos.x > Min2(d[i].pos.x, d[FindIndex(d, d[i].mate)].pos.x)
          /\ d[j].pos.x < Max2(d[i].pos.x, d[FindIndex(d, d[i].mate)].pos.x) )
        => ~SameSortedParents(d[i], d[j])

IndexedIds == {nodeCoords[n].id : n \in 1..Len(nodeCoords)}
DataIds == {data[i].id : i \in 1..Len(data)}

(* C14: after a render that completed, the Coordinate Index has an entry   *)
(* for exactly the ids of the working dataset, each the pixel position of  *)
(* that person's grid position.                                            *)
C14_IndexMatchesDataset ==
    (Rendered /\ ~lastOp.threw) =>
        /\ IndexedIds = DataIds
        /\ \A i \in 1..Len(data) :
               LET c == CoordOf(nodeCoords, data[i].id)
                   px == GetPixelCoords(data[i].pos.x, data[i].pos.y)
               IN HasCoord(nodeCoords, data[i].id) => (c.x = px.x /\ c.y = px.y)

(* C15: a pointer-up or pointer-leave while dragging ends the drag, clears *)
(* the drag target and invokes onNodeMoved once when it is configured (and *)
(* not at all otherwise); while not dragging it changes nothing and        *)
(* invokes nothing.                                                        *)
C15_PointerUp ==
    [][lastOp'.name = "mouseup" =>
          IF isDragging
          THEN /\ ~isDragging'
               /\ dragTarget' = NoTarget
               /\ lastOp'.notified = (IF onNodeMoved THEN 1 ELSE 0)
          ELSE /\ lastOp'.notified = 0
               /\ UNCHANGED <<engine, data, originalData, autoLayoutOptimize, listeners,
                              nodeCoords, isDragging, dragTarget, dragOffset, cursor,
                              canvas, onNodeMoved, aliased>>]_vars

(* A pointer-up has ended a drag and invoked the callback once. *)
C15_Witness ==
    /\ lastOp.name = "mouseup" /\ lastOp.notified = 1
    /\ ~isDragging /\ dragTarget = NoTarget /\ aliased

(* The hit test as the claims state it, for a point at (dx, dy) from the   *)
(* centre: distance <= nodeWidth / 2 for the circular category ('F'),      *)
(* |dx| <= nodeWidth / 2 and |dy| <= nodeHeight / 2 otherwise.             *)
HitTest(person, dx, dy) ==
    IF person.sex = "F"
    THEN 4 * (dx * dx + dy * dy) <= nodeWidth * nodeWidth
    ELSE /\ -nodeWidth <= 2 * dx /\ 2 * dx <= nodeWidth
         /\ -nodeHeight <= 2 * dy /\ 2 * dy <= nodeHeight

(* Person i of the working copy has an entry in the Coordinate Index and   *)
(* the point (x, y) passes the hit test of its sex at that entry.          *)
Passes(i, x, y) ==
    /\ HasCoord(nodeCoords, data[i].id)
    /\ HitTest(data[i], x - CoordOf(nodeCoords, data[i].id).x,
                        y - CoordOf(nodeCoords, data[i].id).y)

(* The step enters Dragging on person i, the offset being the pointer      *)
(* position minus the Coordinate Index position of i.                      *)
EntersDraggingOn(i, x, y) ==
    /\ HasCoord(nodeCoords, data[i].id)
    /\ isDragging'
    /\ dragTarget' = LiveTarget(i)
    /\ dragOffset' = [x |-> x - CoordOf(nodeCoords, data[i].id).x,
                      y |-> y - CoordOf(nodeCoords, data[i].id).y]

FirstPassing(x, y) ==
    {k \in 1..Len(nodeCoords) :
        /\ \A j \in 1..k : FindIndex(data, nodeCoords[j].id) # 0
        /\ \A j \in 1..(k - 1) :
               ~HitTest(data[FindIndex(data, nodeCoords[j].id)],
                        x - nodeCoords[j].x, y - nodeCoords[j].y)
        /\ HitTest(data[FindIndex(data, nodeCoords[k].id)],
                   x - nodeCoords[k].x, y - nodeCoords[k].y)}

C17_DraggedLandsAtPointer ==
    [][\A mx \in PointerXs, my \in PointerYs :
           HandleMouseMoveDrag(mx, my) =>
               LET i == FindIndex(data', TargetPerson(data, dragTarget).id)
               IN /\ lastOp'.renders = 1
                  /\ i # 0 =>
                         data'[i].pos =
                             [x |-> GridUnit * Max2(0, MathRound(mx - dragOffset.x - paddingLeft,
                                                                 hSpacing)),
                              y |-> GridUnit * Max2(0, MathRound(my - dragOffset.y - paddingTop,
                                                                 vSpacing))]]_vars

(* C18: while dragging, every step other than a pointer-up or              *)
(* pointer-leave keeps the controller dragging the same person.            *)
C18_DragTargetStable ==
    [][(isDragging /\ lastOp'.name # "mouseup") =>
           /\ isDragging'
           /\ dragTarget'.active
           /\ TargetPerson(data', dragTarget').id = TargetPerson(data, dragTarget).id]_vars

(* C19: a pointer-move while not dragging triggers no render and changes   *)
(* nothing but the cursor, which becomes 'grab' when a person of the       *)
(* dataset is under the pointer and 'default' otherwise.                   *)
C19_HoverOnlyCursor ==
    [][\A mx \in PointerXs, my \in PointerYs :
           HandleMouseMoveHover(mx, my) =>
               /\ UNCHANGED <<data, originalData, nodeCoords, isDragging, dragTarget,
                              dragOffset, canvas>>
               /\ lastOp'.renders = 0
               /\ cursor' = IF \E i \in 1..Len(data) : Passes(i, mx, my)
                            THEN "grab" ELSE "default"]_vars

(* C20: a render() with autoLayoutOptimize off (called by the page, or by  *)
(* the toggle that has just turned the optimizer off) leaves what          *)
(* getData() returns unchanged, the order of every parents array included. *)
C20_RenderLeavesDataWhenOff ==
    [][((RenderCall \/ ToggleAutoLayoutOptimize) /\ ~autoLayoutOptimize') =>
           GetData' = GetData]_vars

(* C21: one optimizer pass over the working copy (toggle on) leaves no     *)
(* person with a mate in the dataset with a sibling on its row strictly    *)
(* between itself and the mate.                                            *)
C21_PassClearsMateSpans ==
    engine = "ready" => NoSiblingInsideMateSpan(OptimizeLayout(data, TRUE))

(* C22: every partnership line of a render is horizontal and runs from the *)
(* leftmost partner's x + nodeWidth / 2 to the rightmost partner's         *)
(* x - nodeWidth / 2, its start not right of its end.                      *)
C22_PartnershipLineHorizontal ==
    Rendered =>
        \A n \in CmdsOf("partnership") :
            LET i == FindIndex(data, canvas[n].a)
                j == FindIndex(data, canvas[n].b)
                pa == GetPixelCoords(data[i].pos.x, data[i].pos.y)
                pb == GetPixelCoords(data[j].pos.x, data[j].pos.y)
            IN (i # 0 /\ j # 0) =>
                   /\ canvas[n].y1 = canvas[n].y2
                   /\ canvas[n].x1 = Min2(pa.x, pb.x) + nodeWidth \div 2
                   /\ canvas[n].x2 = Max2(pa.x, pb.x) - nodeWidth \div 2
                   /\ canvas[n].x1 <= canvas[n].x2

(* C23: every parent drop line of a render starts at the horizontal        *)
(* midpoint of the two parents and ends on the sibship row of its group:   *)
(* the y of the group's bus line and of the upper end of each of its       *)
(* per-child drop lines.                                                   *)
C23_DropEndsOnSibshipRow ==
    Rendered =>
        \A n \in CmdsOf("parentDrop") :
            LET i == FindIndex(data, canvas[n].a)
                j == FindIndex(data, canvas[n].b)
                pa == GetPixelCoords(data[i].pos.x, data[i].pos.y)
                pb == GetPixelCoords(data[j].pos.x, data[j].pos.y)
            IN /\ (i # 0 /\ j # 0) =>
                      /\ canvas[n].x1 = (pa.x + pb.x) \div 2
                      /\ canvas[n].x2 = canvas[n].x1
               /\ \A m \in CmdsOf("bus") \cup CmdsOf("childDrop") :
                      canvas[m].key = canvas[n].key => canvas[m].y1 = canvas[n].y2

(* Outline shapes and labels drawn for the person with this id. *)
OutlinesOf(id) == {n \in CmdsOf("rect") \cup CmdsOf("circle") : canvas[n].a = id}
LabelsOf(id) == {n \in CmdsOf("label") : canvas[n].a = id}

(* The persons whose sex is neither 'M' nor 'F'. *)
UnrecognizedSex(d) == {i \in 1..Len(d) : d[i].sex \notin {"M", "F"}}

(* The commands of a canvas that were not issued for the node of this id. *)
CommandsOfOthers(cv, id) ==
    LET NotOfNode(c) ==
            c.a # id \/ c.op \in {"partnership", "parentDrop", "bus", "childDrop"}
    IN SelectSeq(cv, NotOfNode)

(* A render of the working copy, and one of the working copy with the sex  *)
(* of person i replaced by 'M'.                                            *)
RenderAsMale(i) ==
    Render([data EXCEPT ![i].sex = "M"], nodeCoords, autoLayoutOptimize)

(* C24: for a person whose sex is neither 'M' nor 'F', a render draws no   *)
(* outline, draws the label and records the pixel position in the          *)
(* Coordinate Index; the render fails exactly when it would fail with a    *)
(* recognized sex in its place, and then leaves the same dataset, the same *)
(* Coordinate Index and the same commands for everything else.             *)
C24_UnrecognizedSexTolerated ==
    \A i \in UnrecognizedSex(data) :
        /\ Rendered =>
               /\ OutlinesOf(data[i].id) = {}
               /\ Cardinality(LabelsOf(data[i].id)) = 1
               /\ HasCoord(nodeCoords, data[i].id)
               /\ LET c == CoordOf(nodeCoords, data[i].id)
                      px == GetPixelCoords(data[i].pos.x, data[i].pos.y)
                  IN c.x = px.x /\ c.y = px.y
        /\ engine = "ready" =>
               /\ NextRender.threw = RenderAsMale(i).threw
               /\ NextRender.nodeCoords = RenderAsMale(i).nodeCoords
               /\ Positions(NextRender.data) = Positions(RenderAsMale(i).data)
               /\ CommandsOfOthers(NextRender.canvas, data[i].id)
                      = CommandsOfOthers(RenderAsMale(i).canvas, data[i].id)

(* A render that completed has drawn a dataset with a person of            *)
(* unrecognized sex that has a phenotype and the proband flag, next to     *)
(* outlined persons and connection lines.                                  *)
C24_Witness ==
    /\ Rendered /\ ~lastOp.threw
    /\ \E i \in UnrecognizedSex(data) :
           /\ Len(data[i].phenotypes) > 0
           /\ data[i].isProband
           /\ LabelsOf(data[i].id) # {}
    /\ \E j \in 1..Len(data) : OutlinesOf(data[j].id) # {}
    /\ CmdsOf("bus") # {}

(* C25: wedge i (0-based) of the k phenotypes of an 'F' person spans from  *)
(* i turns / k minus a quarter turn to (i + 1) turns / k minus a quarter   *)
(* turn; in the model's unit of 1 / (4k) of a turn, from 4i - k to         *)
(* 4(i + 1) - k.                                                           *)
C25_WedgesStartAtTop ==
    Rendered =>
        \A n \in CmdsOf("fillWedge") :
            /\ canvas[n].x2 = 4 * canvas[n].i - canvas[n].k
            /\ canvas[n].y2 = 4 * (canvas[n].i + 1) - canvas[n].k

(* C26: while the controller is dragging, the drag target is a record of   *)
(* the current working dataset.                                            *)
C26_DragTargetInDataset ==
    (engine = "ready" /\ isDragging /\ dragTarget.active) =>
        /\ dragTarget.live
        /\ dragTarget.idx \in 1..Len(data)

(* The unordered id pairs that routing keys: a person with its mate, and   *)
(* the two parents of a person.                                            *)
KeyedPairs ==
    {{data[i].id, data[i].mate} : i \in {m \in 1..Len(data) : data[m].mate # NoId}}
        \cup {{data[i].parents[1], data[i].parents[2]} :
                  i \in {m \in 1..Len(data) : Len(data[m].parents) = 2}}

(* The key routing builds for a pair of ids: [a, b].sort().join('-'). *)
KeyOfPair(pair) ==
    LET a == CHOOSE u \in pair : TRUE
        b == CHOOSE u \in pair : pair = {a, u}
    IN JoinDash(Sort2(<<a, b>>))

(* C27: the two ids routing recovers from a sibling group's key            *)
(* (parentKey.split('-')[0] and [1]) are the two ids of the children's     *)
(* parents field, and two different unordered id pairs never get the same  *)
(* key.                                                                    *)
C27_KeysIdentifyPairs ==
    engine = "ready" =>
        /\ \A i \in 1..Len(data) :
               Len(data[i].parents) = 2 =>
                   LET parentIds == SplitDash(JoinDash(Sort2(data[i].parents)))
                   IN {parentIds[1], parentIds[2]}
                          = {data[i].parents[1], data[i].parents[2]}
        /\ \A s, t \in KeyedPairs : s # t => KeyOfPair(s) # KeyOfPair(t)

(* C28: a pointer-move at the position of the pointer-down that hit a node *)
(* (the node's Coordinate Index position plus the drag offset) leaves the  *)
(* grid position of that node as it was.                                   *)
C28_ZeroDisplacementKeepsPosition ==
    [][\A mx \in PointerXs, my \in PointerYs :
           ( /\ lastOp.name = "mousedown"
             /\ dragTarget.live
             /\ HasCoord(nodeCoords, data[dragTarget.idx].id)
             /\ mx = CoordOf(nodeCoords, data[dragTarget.idx].id).x + dragOffset.x
             /\ my = CoordOf(nodeCoords, data[dragTarget.idx].id).y + dragOffset.y
             /\ HandleMouseMoveDrag(mx, my) )
           => GetData'[dragTarget.idx].pos = GetData[dragTarget.idx].pos]_vars

(* Number of persons of d at grid position (x, y). *)
CountAt(d, x, y) == Cardinality({i \in 1..Len(d) : d[i].pos.x = x /\ d[i].pos.y = y})

(* `after` has the persons of `before` with the same grid y each, and on   *)
(* every row the same multiset of grid x values.                           *)
PermutesRowXs(before, after) ==
    /\ Len(after) = Len(before)
    /\ \A i \in 1..Len(before) :
           /\ after[i].id = before[i].id
           /\ after[i].pos.y = before[i].pos.y
           /\ CountAt(after, before[i].pos.x, before[i].pos.y)
                  = CountAt(before, before[i].pos.x, before[i].pos.y)
           /\ CountAt(after, after[i].pos.x, after[i].pos.y)
                  = CountAt(before, after[i].pos.x, after[i].pos.y)

(* C29: an optimizer pass over the working copy changes no grid y and      *)
(* leaves, on every row, the same multiset of grid x values.               *)
C29_PassPermutesRowXs ==
    engine = "ready" => PermutesRowXs(data, OptimizeLayout(data, TRUE))

(* A pass moves at least two persons of a row on which another person      *)
(* stays where it is.                                                      *)
C29_Witness ==
    /\ engine = "ready"
    /\ \E i, j \in MovedBy(data) :
           /\ i # j
           /\ data[i].pos.y = data[j].pos.y
           /\ \E m \in 1..Len(data) :
                  m \notin MovedBy(data) /\ data[m].pos.y = data[i].pos.y

(* C30: in every state, isDragging is true exactly when the drag target is *)
(* non-null, and the cursor style is 'grabbing' exactly when isDragging is *)
(* true.                                                                   *)
C30_DragFlagsAgree ==
    /\ isDragging <=> dragTarget.active
    /\ cursor = "grabbing" <=> isDragging

(* A drag is under way after a pointer-move, and after a resetPositions()  *)
(* that replaced the working copy under it.                                *)
C30_Witness ==
    /\ isDragging /\ dragTarget.active /\ cursor = "grabbing"
    /\ \/ lastOp.name = "mousemove drag" /\ dragTarget.live
       \/ lastOp.name = "resetPositions" /\ ~dragTarget.live

====
